---- MODULE Spec2Model ----
(***************************************************************************)
(* CellDesigner -> SBML-qual / BMA conversion (celldesigner2qual.py and    *)
(* casq/bmaExport.py).                                                     *)
(*                                                                         *)
(* An id string is modelled as the sequence of the comma-free pieces it    *)
(* is made of: "a" is <<"a">> and the comma-joined "a,b" is <<"a","b">>.   *)
(* A python list held by several Transition tuples is one cell of `lists`, *)
(* so that an in-place list.extend is seen through every reference.        *)
(***************************************************************************)
EXTENDS Integers, Sequences, FiniteSets, TLC

MaxReactions == 2
MaxReactants == 1
MaxMods == 1
MaxPacked == 2
MaxProducts == 2
MaxGranularity == 2

AtomOrder == <<"a", "b", "c">>
Atoms == {AtomOrder[i] : i \in DOMAIN AtomOrder}
\* ids the reactions of the document refer to ("c" is reached as a complex)
RawIds == {"a", "b"}
NoComplex == "-"
ModTypes == {"INHIBITION", "UNKNOWN_INHIBITION", "CATALYSIS"}

\* model:       complexSpeciesAlias of each speciesAlias id (decomplexify)
\* keys:        the keys of info, in insertion order (species_info)
\* transitions: info[k]['transitions'], each Transition holding the index
\*              in `lists` of its reactants list and its modifiers
\* lists:       the current content of the reacs list of each reaction
\* built:       the content of each reacs list as get_transitions built it
\* pc:          "read" while reactions are read, then "qual" or "bma"
\* qual:        per species, what write_qual emitted
\* bma:         what write_bma emitted
VARIABLES model, keys, transitions, lists, built, pc, qual, bma

vars == <<model, keys, transitions, lists, built, pc, qual, bma>>

----------------------------------------------------------------------------
(* helpers on sequences *)

Ord(x) == CHOOSE i \in DOMAIN AtomOrder : AtomOrder[i] = x
Increasing(s) == \A i \in 1..(Len(s) - 1) : Ord(s[i]) < Ord(s[i + 1])
SeqsUpTo(S, n) == UNION {[1..k -> S] : k \in 0..n}
Range(s) == {s[i] : i \in DOMAIN s}

RECURSIVE Concat(_)
Concat(ss) == IF ss = <<>> THEN <<>> ELSE Head(ss) \o Concat(Tail(ss))

\* python str(n) for the small naturals of the model
str(n) == ToString(n)

----------------------------------------------------------------------------
(* the raw document: alias ids, reactions *)

\* an alias id packing 1..MaxPacked comma-joined ids
PackedNames == {s \in SeqsUpTo(RawIds, MaxPacked) : Len(s) >= 1 /\ Increasing(s)}
SingleNames == {<<x>> : x \in RawIds}
RawReactants == SeqsUpTo(SingleNames, MaxReactants)
RawProducts ==
    {[i \in DOMAIN s |-> <<s[i]>>] :
        s \in {t \in SeqsUpTo(RawIds, MaxProducts) : Len(t) >= 1 /\ Increasing(t)}}
RawMods == SeqsUpTo(ModTypes \X PackedNames, MaxMods)

\* complexSpeciesAlias attribute of the speciesAlias elements: NoComplex for
\* an id with no speciesAlias element or no such attribute
Models ==
    {m \in [Atoms -> Atoms \cup {NoComplex}] :
        \A x \in Atoms : m[x] # NoComplex => (x \in RawIds /\ Ord(x) < Ord(m[x]))}

\* the aliases carrying compartmentAlias, in document order
KeyTables ==
    {s \in SeqsUpTo(Atoms, Len(AtomOrder)) : Len(s) >= 1 /\ Increasing(s)}

----------------------------------------------------------------------------
(* celldesigner2qual.py *)

decomplexify(species, mdl) ==
    IF Len(species) = 1 /\ mdl[species[1]] # NoComplex
    THEN <<mdl[species[1]]>>
    ELSE species

species_info(table) == [k \in {<<table[i]>> : i \in DOMAIN table} |-> <<>>]

Transition(reacs, mods) == [reactants |-> reacs, modifiers |-> mods]

\* one iteration of the loop of get_transitions over the reactions
get_transitions(rawReacs, rawProds, rawMods) ==
    LET reacs == [i \in DOMAIN rawReacs |-> decomplexify(rawReacs[i], model)]
        prods == [i \in DOMAIN rawProds |-> decomplexify(rawProds[i], model)]
        mods  == [i \in DOMAIN rawMods |->
                    <<rawMods[i][1], decomplexify(rawMods[i][2], model)>>]
        ref   == Len(lists) + 1
        t     == Transition(ref, mods)
    IN  /\ lists' = Append(lists, reacs)
        /\ built' = Append(built, reacs)
        /\ transitions' =
              [k \in DOMAIN transitions |->
                  transitions[k] \o
                  [i \in 1..Len(SelectSeq(prods, LAMBDA p : p = k)) |-> t]]

split(modifier) == [i \in DOMAIN modifier |-> <<modifier[i]>>]

RECURSIVE SplitAll(_)
SplitAll(mods) ==
    IF mods = <<>> THEN <<>> ELSE split(Head(mods)[2]) \o SplitAll(Tail(mods))

activators(mods) == SplitAll(SelectSeq(mods, LAMBDA m : m[1] # "INHIBITION"))
inhibitors(mods) == SplitAll(SelectSeq(mods, LAMBDA m : m[1] = "INHIBITION"))

Node(op, kids) == [op |-> op, ci |-> <<>>, cn |-> "", kids |-> kids]

set_level(modifier, level) ==
    [op |-> "eq", ci |-> modifier, cn |-> level, kids |-> <<>>]

Levels(s, level) == [i \in DOMAIN s |-> set_level(s[i], level)]

\* body of the loop of add_function for one reaction: the elements it adds
\* under `apply`, and the reactants list after reactants.extend
add_function_reaction(reactants, mods) ==
    LET acts == activators(mods)
        inhs == inhibitors(mods)
        land == \/ Len(reactants) + Len(inhs) > 1
                \/ (acts # <<>> /\ (reactants # <<>> \/ inhs # <<>>))
        reactants2 == IF Len(acts) < 2 THEN reactants \o acts ELSE reactants
        inner == IF Len(acts) < 2 THEN <<>> ELSE <<Node("or", Levels(acts, "1"))>>
        items == inner \o Levels(reactants2, "1") \o Levels(inhs, "0")
    IN  [reactants |-> reactants2,
         kids |-> IF land THEN <<Node("and", items)>> ELSE items]

RECURSIVE add_function_loop(_, _, _)
add_function_loop(trs, h, branches) ==
    IF trs = <<>>
    THEN [lists |-> h, branches |-> branches]
    ELSE LET t == Head(trs)
             r == add_function_reaction(h[t.reactants], t.modifiers)
         IN  add_function_loop(Tail(trs),
                               [h EXCEPT ![t.reactants] = r.reactants],
                               Append(branches, r.kids))

add_function(trs, h) ==
    LET r == add_function_loop(trs, h, <<>>)
    IN  [lists |-> r.lists,
         branches |-> r.branches,
         math |-> IF Len(trs) > 1
                  THEN <<Node("or", Concat(r.branches))>>
                  ELSE Concat(r.branches)]

\* chain(enumerate(reaction.reactants), reaction.modifiers) with its sign
SignedInputs(t, h) ==
    [i \in DOMAIN h[t.reactants] |-> <<h[t.reactants][i], "positive">>] \o
    [i \in DOMAIN t.modifiers |->
        <<t.modifiers[i][2],
          IF t.modifiers[i][1] = "INHIBITION" THEN "negative" ELSE "positive">>]

RECURSIVE AppendNew(_, _)
AppendNew(modifiers, s) ==
    IF s = <<>> THEN modifiers
    ELSE AppendNew(IF Head(s) \in Range(modifiers)
                   THEN modifiers ELSE Append(modifiers, Head(s)),
                   Tail(s))

add_inputs(trs, h) ==
    AppendNew(<<>>, Concat([i \in DOMAIN trs |-> SignedInputs(trs[i], h)]))

\* add_positions marking every species non-constant
add_positions_nonconstant(trs) == "false"

add_positions(trs) == IF trs # <<>> THEN "false" ELSE "true"

RECURSIVE add_transitions(_, _, _)
add_transitions(ks, h, acc) ==
    IF ks = <<>>
    THEN [lists |-> h, qual |-> acc]
    ELSE LET k == <<Head(ks)>>
             trs == transitions[k]
             f == add_function(trs, h)
         IN  IF trs # <<>>
             THEN add_transitions(Tail(ks), f.lists,
                      acc @@ (k :> [constant |-> add_positions(trs),
                                    transition |-> TRUE,
                                    inputs |-> add_inputs(trs, h),
                                    math |-> f.math,
                                    branches |-> f.branches]))
             ELSE add_transitions(Tail(ks), h,
                      acc @@ (k :> [constant |-> add_positions(trs),
                                    transition |-> FALSE,
                                    inputs |-> <<>>,
                                    math |-> <<>>,
                                    branches |-> <<>>]))

write_qual ==
    LET r == add_transitions(keys, lists, <<>>)
    IN  /\ qual' = r.qual
        /\ lists' = r.lists

----------------------------------------------------------------------------
(* casq/bmaExport.py *)

\* counter.next without the increment
counter_next_stuck(value) == [result |-> value, value |-> value]

counter_next(value) == [result |-> value, value |-> value + 1]

booleanFormulaBuilder == <<"1">>
\* multiStateFormulaBuilder starting from the Boolean builder's "1"
multiStateFormulaBuilder_one == <<"1">>

multiStateFormulaBuilder == <<>>

addActivator(granularity, vid, value) ==
    IF granularity = 1
    THEN <<"(min(var(", str(vid), "),">> \o value \o <<"))">>
    ELSE value

addInhibitor(granularity, vid, value) ==
    IF granularity = 1
    THEN <<"(min(1-var(", str(vid), "),">> \o value \o <<"))">>
    ELSE value

bma_relationship(source, target, idMap, count, which) ==
    [ToVariable |-> idMap[target],
     Type |-> which,
     FromVariable |-> idMap[source],
     Id |-> counter_next(count).result]

\* the regulators of one transition in the order get_relationships visits
\* them, each with the relationship type it is given
Regulators(t, h) ==
    [i \in DOMAIN h[t.reactants] |-> <<h[t.reactants][i], "Activator">>] \o
    [i \in DOMAIN t.modifiers |->
        <<t.modifiers[i][2],
          IF t.modifiers[i][1] \in {"UNKNOWN_INHIBITION", "INHIBITION"}
          THEN "Inhibitor" ELSE "Activator">>]

\* the two inner loops of get_relationships for one item
RECURSIVE get_relationships_item(_, _, _, _, _, _, _)
get_relationships_item(regs, product, idMap, count, granularity, rels, value) ==
    IF regs = <<>>
    THEN [count |-> count, relationships |-> rels, value |-> value]
    ELSE LET m == Head(regs)[1]
             which == Head(regs)[2]
         IN  IF m \in DOMAIN idMap
             THEN get_relationships_item(
                      Tail(regs), product, idMap,
                      counter_next(count).value, granularity,
                      Append(rels, bma_relationship(m, product, idMap, count, which)),
                      IF which = "Inhibitor"
                      THEN addInhibitor(granularity, idMap[m], value)
                      ELSE addActivator(granularity, idMap[m], value))
             ELSE get_relationships_item(
                      Tail(regs), product, idMap, count, granularity, rels, value)

RECURSIVE get_relationships(_, _, _, _, _, _, _)
get_relationships(ks, h, idMap, count, granularity, rels, allFormulae) ==
    IF ks = <<>>
    THEN [count |-> count, relationships |-> rels, allFormulae |-> allFormulae]
    ELSE LET item == <<Head(ks)>>
             trs == transitions[item]
             r == get_relationships_item(
                      Concat([i \in DOMAIN trs |-> Regulators(trs[i], h)]),
                      item, idMap, count, granularity, rels,
                      IF granularity = 1
                      THEN booleanFormulaBuilder ELSE multiStateFormulaBuilder)
         IN  IF Len(trs) = 0
             THEN get_relationships(Tail(ks), h, idMap, count, granularity,
                                    rels, allFormulae)
             ELSE get_relationships(Tail(ks), h, idMap, r.count, granularity,
                                    r.relationships,
                                    allFormulae @@ (item :> r.value))

bma_model_variable(vid, formulaDict, v, granularity) ==
    [Id |-> vid,
     RangeFrom |-> 0,
     RangeTo |-> granularity,
     Formula |-> IF v \in DOMAIN formulaDict
                 THEN formulaDict[v] ELSE <<str(granularity)>>]

\* idMap = dict([(k, idGenerator.next()) for k in info.keys()])
RECURSIVE BuildIdMap(_, _, _)
BuildIdMap(ks, count, idMap) ==
    IF ks = <<>>
    THEN [count |-> count, idMap |-> idMap]
    ELSE BuildIdMap(Tail(ks), counter_next(count).value,
                    idMap @@ (<<Head(ks)>> :> counter_next(count).result))

write_bma(granularity) ==
    LET ids == BuildIdMap(keys, 1, <<>>)
        r == get_relationships(keys, lists, ids.idMap, ids.count, granularity,
                               <<>>, <<>>)
    IN  bma' = [granularity |-> granularity,
                idMap |-> ids.idMap,
                count |-> r.count,
                Relationships |-> r.relationships,
                Variables |-> [i \in DOMAIN keys |->
                                 bma_model_variable(ids.idMap[<<keys[i]>>],
                                                    r.allFormulae, <<keys[i]>>,
                                                    granularity)]]

----------------------------------------------------------------------------
(* the state machine *)

Init ==
    /\ model \in Models
    /\ keys \in KeyTables
    /\ transitions = species_info(keys)
    /\ lists = <<>>
    /\ built = <<>>
    /\ pc = "read"
    /\ qual = <<>>
    /\ bma = <<>>

GetTransitions ==
    /\ pc = "read"
    /\ Len(lists) < MaxReactions
    /\ \E rawReacs \in RawReactants, rawProds \in RawProducts, rawMods \in RawMods :
          get_transitions(rawReacs, rawProds, rawMods)
    /\ UNCHANGED <<model, keys, pc, qual, bma>>

WriteQual ==
    /\ pc = "read"
    /\ write_qual
    /\ pc' = "qual"
    /\ UNCHANGED <<model, keys, transitions, built, bma>>

WriteBma ==
    /\ pc = "read"
    /\ \E granularity \in 1..MaxGranularity : write_bma(granularity)
    /\ pc' = "bma"
    /\ UNCHANGED <<model, keys, transitions, lists, built, qual>>

Next == GetTransitions \/ WriteQual \/ WriteBma

Spec == Init /\ [][Next]_vars

----------------------------------------------------------------------------
(* properties *)

KeySet == DOMAIN transitions
NoDup(s) == \A i, j \in DOMAIN s : i # j => s[i] # s[j]
AllNames == {<<x>> : x \in Atoms} \cup PackedNames

\* the ids tested by the leaves of a sequence of MathML elements
RECURSIVE LeavesOf(_)
LeavesOf(nodes) ==
    IF nodes = <<>> THEN {}
    ELSE (IF Head(nodes).op = "eq"
          THEN {Head(nodes).ci} ELSE LeavesOf(Head(nodes).kids))
         \cup LeavesOf(Tail(nodes))

\* the (id, sign) pairs tested by the leaves of a sequence of MathML elements
RECURSIVE SignedLeavesOf(_)
SignedLeavesOf(nodes) ==
    IF nodes = <<>> THEN {}
    ELSE (IF Head(nodes).op = "eq"
          THEN {<<Head(nodes).ci,
                  IF Head(nodes).cn = "0" THEN "negative" ELSE "positive">>}
          ELSE SignedLeavesOf(Head(nodes).kids))
         \cup SignedLeavesOf(Tail(nodes))

\* the table keys that are the source of some BMA relationship
BmaSources ==
    {k \in DOMAIN bma.idMap :
        \E i \in DOMAIN bma.Relationships :
            bma.Relationships[i].FromVariable = bma.idMap[k]}

Canonical(c) == Len(c) = 1 /\ decomplexify(c, model) = c

\* C1: in both backends the declared regulatory inputs of a target contain
\* each (source, sign) pair at most once: the qual:input list of a species
\* has no repeated (id, sign), and no two BMA relationships share target,
\* source and type.
C1_InputsDeduplicated ==
    /\ pc = "qual" => \A k \in DOMAIN qual : NoDup(qual[k].inputs)
    /\ pc = "bma" =>
          \A i, j \in DOMAIN bma.Relationships :
              i # j =>
                  \/ bma.Relationships[i].ToVariable # bma.Relationships[j].ToVariable
                  \/ bma.Relationships[i].FromVariable # bma.Relationships[j].FromVariable
                  \/ bma.Relationships[i].Type # bma.Relationships[j].Type

\* C2: a reactant or modifier id that is not a key of the species table is
\* never a leaf of a compiled formula nor the source of a declared input,
\* in the XML output and in the BMA output.
C2_MissingIdsExcluded ==
    /\ pc = "qual" =>
          \A k \in DOMAIN qual :
              /\ LeavesOf(qual[k].math) \subseteq KeySet
              /\ \A i \in DOMAIN qual[k].inputs : qual[k].inputs[i][1] \in KeySet
    /\ pc = "bma" =>
          \A i \in DOMAIN bma.Relationships :
              \E k \in KeySet : bma.idMap[k] = bma.Relationships[i].FromVariable

\* C3: decomplexify is idempotent on every alias id of the document.
C3_DecomplexifyIdempotent ==
    \A x \in AllNames :
        decomplexify(decomplexify(x, model), model) = decomplexify(x, model)

\* C4: every id used as a formula leaf or as the source of a regulatory
\* input is one canonical id: not comma-joined, and a fixed point of
\* decomplexify.
C4_ReferencesCanonical ==
    /\ pc = "qual" =>
          \A k \in DOMAIN qual :
              /\ \A c \in LeavesOf(qual[k].math) : Canonical(c)
              /\ \A i \in DOMAIN qual[k].inputs : Canonical(qual[k].inputs[i][1])
    /\ pc = "bma" => \A c \in BmaSources : Canonical(c)

\* C5: the reactants of every Transition stay exactly those built by
\* get_transitions, whatever has been compiled since.
C5_TransitionsImmutable == lists = built

\* the members add_function is to put in the branch of a transition whose
\* reactants are rs and whose modifiers are mods
BranchMembers(rs, mods) ==
    (IF Len(activators(mods)) >= 2
     THEN <<Node("or", Levels(activators(mods), "1"))>> ELSE <<>>)
    \o Levels(rs \o (IF Len(activators(mods)) < 2 THEN activators(mods) ELSE <<>>), "1")
    \o Levels(inhibitors(mods), "0")

BranchHasAnd(b) == Len(b) = 1 /\ b[1].op = "and"

\* C6: the branch of a transition is wrapped in exactly one AND node iff
\* |reactants| + |inhibitors| >= 2 or it has an activator together with a
\* reactant or inhibitor; 0 or 1 activator stands beside the reactants at
\* level 1, >= 2 activators form one OR group, inhibitors are at level 0.
C6_AndNodeRule ==
    pc = "qual" =>
        \A k \in DOMAIN qual :
            \A i \in DOMAIN transitions[k] :
                LET t == transitions[k][i]
                    rs == built[t.reactants]
                    b == qual[k].branches[i]
                    n == Len(rs) + Len(inhibitors(t.modifiers))
                IN  /\ BranchHasAnd(b) <=>
                          (n >= 2 \/ (Len(activators(t.modifiers)) >= 1 /\ n >= 1))
                    /\ (IF BranchHasAnd(b) THEN b[1].kids ELSE b)
                          = BranchMembers(rs, t.modifiers)

\* C7: with n >= 2 incoming transitions the formula is one OR node whose
\* i-th child is the branch of the i-th transition; with n = 1 it is that
\* transition's branch; the declared inputs are those the branches test.
C7_OrAcrossTransitions ==
    pc = "qual" =>
        \A k \in DOMAIN qual :
            LET n == Len(transitions[k])
                m == qual[k].math
            IN  n >= 1 =>
                    /\ n >= 2 =>
                          /\ Len(m) = 1
                          /\ m[1].op = "or"
                          /\ Len(m[1].kids) = n
                          /\ \A i \in 1..n : qual[k].branches[i] = <<m[1].kids[i]>>
                    /\ n = 1 => m = qual[k].branches[1]
                    /\ Range(qual[k].inputs) = SignedLeavesOf(m)

\* C8: the integer ids allocated in one write_bma (one per species in table
\* order, then one per relationship) have no duplicates and are exactly
\* 1 .. totalAllocated; the species-id map is a bijection onto 1 .. #species.
C8_IdsUnique ==
    pc = "bma" =>
        LET rels == bma.Relationships
            varIds == {bma.Variables[i].Id : i \in DOMAIN bma.Variables}
            relIds == {rels[i].Id : i \in DOMAIN rels}
            total == bma.count - 1
        IN  /\ \A i \in DOMAIN keys :
                  bma.idMap[<<keys[i]>>] = i /\ bma.Variables[i].Id = i
            /\ DOMAIN bma.idMap = KeySet
            /\ \A k1, k2 \in KeySet : bma.idMap[k1] = bma.idMap[k2] => k1 = k2
            /\ \A j \in DOMAIN rels : rels[j].Id = Len(keys) + j
            /\ varIds \cap relIds = {}
            /\ Cardinality(varIds) + Cardinality(relIds) = total
            /\ varIds \cup relIds = 1..total

C8_Witness ==
    /\ pc = "bma"
    /\ Len(keys) >= 2
    /\ Len(bma.Relationships) >= 2

\* C9: a species with no incoming transition is constant and has no
\* regulatory input: constant="true" and no transition element in the XML
\* output, Formula = str(granularity) and no relationship towards it in the
\* BMA output; a species marked non-constant has an incoming transition.
C9_ConstantSpecies ==
    /\ pc = "qual" =>
          \A k \in KeySet :
              /\ transitions[k] = <<>> =>
                    /\ qual[k].constant = "true"
                    /\ ~qual[k].transition
                    /\ qual[k].math = <<>>
                    /\ qual[k].inputs = <<>>
              /\ qual[k].constant = "false" => transitions[k] # <<>>
    /\ pc = "bma" =>
          \A i \in DOMAIN keys :
              transitions[<<keys[i]>>] = <<>> =>
                  /\ bma.Variables[i].Formula = <<str(bma.granularity)>>
                  /\ \A j \in DOMAIN bma.Relationships :
                        bma.Relationships[j].ToVariable # bma.idMap[<<keys[i]>>]

C9_Witness ==
    /\ pc = "qual"
    /\ \E k \in KeySet : transitions[k] = <<>> /\ qual[k].constant = "true"
    /\ \E k \in KeySet : transitions[k] # <<>> /\ qual[k].constant = "false"

BmaOfBuilt ==
    LET ids == BuildIdMap(keys, 1, <<>>)
    IN  [idMap |-> ids.idMap,
         Relationships |->
             get_relationships(keys, built, ids.idMap, ids.count, 1,
                               <<>>, <<>>).relationships]

\* the table keys declared as inputs of sign `sign` of species k in the XML
XmlInputSources(k, sign) ==
    {m \in KeySet : <<m, sign>> \in Range(qual[k].inputs)}

\* the table keys tested with sign `sign` in the XML formula of species k
XmlLeafSources(k, sign) ==
    {m \in KeySet : <<m, sign>> \in SignedLeavesOf(qual[k].math)}

\* the table keys with a BMA relationship of type `which` towards species k
BmaRelSources(k, which) ==
    {m \in KeySet :
        \E j \in DOMAIN BmaOfBuilt.Relationships :
            /\ BmaOfBuilt.Relationships[j].ToVariable = BmaOfBuilt.idMap[k]
            /\ BmaOfBuilt.Relationships[j].FromVariable = BmaOfBuilt.idMap[m]
            /\ BmaOfBuilt.Relationships[j].Type = which}

\* C11: a modifier's polarity is classified alike everywhere: for a species
\* whose modifier entries are single ids, the regulators that are negative
\* in the XML inputs, those tested at level 0 in the XML formula and those
\* with an Inhibitor relationship in the BMA output are the same, and so
\* are the positive ones, the level-1 ones and the Activator ones.
C11_PolarityConsistent ==
    pc = "qual" =>
        \A k \in DOMAIN qual :
            (\A i \in DOMAIN transitions[k] :
                \A j \in DOMAIN transitions[k][i].modifiers :
                    Len(transitions[k][i].modifiers[j][2]) = 1)
            => /\ XmlInputSources(k, "negative") = XmlLeafSources(k, "negative")
               /\ XmlInputSources(k, "negative") = BmaRelSources(k, "Inhibitor")
               /\ XmlInputSources(k, "positive") = XmlLeafSources(k, "positive")
               /\ XmlInputSources(k, "positive") = BmaRelSources(k, "Activator")

====
